---------------------------- MODULE Spec2Model ----------------------------
(***************************************************************************)
(* Model of src/cvmfs/publisher.py: the transaction wrapper around         *)
(* cvmfs_server (start_txn / publish_txn / abort_txn), the tag symlink     *)
(* maintenance (create_symlink), the image writer (write_docker_image) and *)
(* the orchestrator publish_docker_image.                                  *)
(*                                                                         *)
(* Python strings are sequences of one-character strings.  The filesystem  *)
(* is a function from absolute paths (sequences of components, each a      *)
(* string in the above sense) to nodes.  The program is single threaded    *)
(* and every call synchronous.  publish_docker_image is modelled step by   *)
(* step (pc); the underlying commands and filesystem calls a call issues   *)
(* are recorded, in order, in `trace`.                                     *)
(***************************************************************************)
EXTENDS Integers, Sequences, FiniteSets, TLC

VARIABLES
    in_txn,     \* the module global _in_txn
    lock,       \* /var/spool/cvmfs/<filesystem>/in_transaction.lock exists
    fs,         \* the filesystem: absolute path -> node
    builds,     \* image directories handed to the builder, in order
    calls,      \* number of calls made so far
    pc,         \* "idle" between calls, else the step the running call is at
    call,       \* the running (or, when idle, the last) call: arguments and pre-state
    ret,        \* what the last call returned
    trace,      \* commands and filesystem calls issued by that call, in order
    superuser   \* the process runs as root (else as the owner of the repository)

vars == <<in_txn, lock, fs, builds, calls, pc, call, ret, trace, superuser>>

-----------------------------------------------------------------------------
(* Bounds of the model *)

\* number of top-level calls explored in one process
MaxCalls == 2

-----------------------------------------------------------------------------
(* Python strings *)

SLASH == "/"
COLON == ":"

\* str.startswith(c) / str.endswith(c) for a single character c
StartsWith(s, c) == Len(s) > 0 /\ s[1] = c
EndsWith(s, c) == Len(s) > 0 /\ s[Len(s)] = c

\* s[i:j] with Python's clamping (0-based, half open)
Slice(s, i, j) ==
    LET hi == IF j > Len(s) THEN Len(s) ELSE j
    IN  IF i >= hi THEN <<>> ELSE SubSeq(s, i + 1, hi)

\* str.split(sep) for a single-character separator: the list of pieces
RECURSIVE StrSplit(_, _)
StrSplit(s, sep) ==
    IF \A i \in 1..Len(s) : s[i] # sep
    THEN <<s>>
    ELSE LET i == CHOOSE k \in 1..Len(s) :
                      s[k] = sep /\ \A m \in 1..(k - 1) : s[m] # sep
         IN  <<SubSeq(s, 1, i - 1)>> \o StrSplit(SubSeq(s, i + 1, Len(s)), sep)

\* str.rstrip('/')
RECURSIVE RStripSlash(_)
RStripSlash(s) ==
    IF EndsWith(s, SLASH) THEN RStripSlash(SubSeq(s, 1, Len(s) - 1)) ELSE s

\* '/'.join(filter(None, parts))
RECURSIVE SlashJoinNonEmpty(_)
SlashJoinNonEmpty(parts) ==
    IF parts = <<>> THEN <<>>
    ELSE LET rest == SlashJoinNonEmpty(Tail(parts))
         IN  IF Head(parts) = <<>> THEN rest
             ELSE IF rest = <<>> THEN Head(parts)
             ELSE Head(parts) \o <<SLASH>> \o rest

-----------------------------------------------------------------------------
(* posixpath *)

\* os.path.join(a, b)
PathJoin2(a, b) ==
    IF StartsWith(b, SLASH) THEN b
    ELSE IF a = <<>> \/ EndsWith(a, SLASH) THEN a \o b
    ELSE a \o <<SLASH>> \o b

\* os.path.join(parts[1], parts[2], ...)
RECURSIVE PathJoin(_)
PathJoin(parts) ==
    IF Len(parts) = 1 THEN parts[1]
    ELSE PathJoin2(PathJoin(SubSeq(parts, 1, Len(parts) - 1)), parts[Len(parts)])

\* os.path.split(p)[0]
PathSplitHead(p) ==
    LET idx  == {k \in 1..Len(p) : p[k] = SLASH}
        i    == IF idx = {} THEN 0 ELSE CHOOSE k \in idx : \A m \in idx : m <= k
        head == SubSeq(p, 1, i)
    IN  IF head # <<>> /\ \E k \in 1..Len(head) : head[k] # SLASH
        THEN RStripSlash(head) ELSE head

\* os.path.split(p)[1]
PathSplitTail(p) ==
    LET idx == {k \in 1..Len(p) : p[k] = SLASH}
        i   == IF idx = {} THEN 0 ELSE CHOOSE k \in idx : \A m \in idx : m <= k
    IN  SubSeq(p, i + 1, Len(p))

\* The components the kernel walks for an absolute path: the pieces between
\* slashes, empty pieces and "." dropped.
RECURSIVE DropEmpty(_)
DropEmpty(parts) ==
    IF parts = <<>> THEN <<>>
    ELSE IF Head(parts) = <<>> \/ Head(parts) = <<".">> THEN DropEmpty(Tail(parts))
    ELSE <<Head(parts)>> \o DropEmpty(Tail(parts))

Components(p) == DropEmpty(StrSplit(p, SLASH))


-----------------------------------------------------------------------------
(* The filesystem.  A node is a directory, a regular file or a symbolic     *)
(* link; the root <<>> is always a directory.                               *)

DirMode(m) == [type |-> "dir", target |-> <<>>, mode |-> m]
FileMode(m) == [type |-> "file", target |-> <<>>, mode |-> m]
\* lstat reports 0o777 for a symbolic link
LinkNode(t) == [type |-> "link", target |-> t, mode |-> 511]

\* a directory made by mkdir / makedirs and a file made by touch, umask 0o022
DirNode == DirMode(493)
FileNode == FileMode(420)

\* bitwise and / or of two naturals
RECURSIVE BitAnd(_, _)
BitAnd(a, b) ==
    IF a = 0 \/ b = 0 THEN 0
    ELSE (a % 2) * (b % 2) + 2 * BitAnd(a \div 2, b \div 2)

RECURSIVE BitOr(_, _)
BitOr(a, b) ==
    IF a = 0 THEN b ELSE IF b = 0 THEN a
    ELSE (IF a % 2 = 1 \/ b % 2 = 1 THEN 1 ELSE 0) + 2 * BitOr(a \div 2, b \div 2)

\* the permission masks of the walk: 0o444, 0o400, 0o111, 0o100, 0o222, 0o200
MODE_R_ANY == 292
MODE_R_USR == 256
MODE_X_ANY == 73
MODE_X_USR == 64
MODE_W_ANY == 146
MODE_W_USR == 128

\* What the process may do with a directory of mode `mode` that it owns:
\* the superuser (`root`) lists, searches and writes any directory, anyone
\* else needs the owner's read bit to list it (os.scandir), the owner's
\* execute bit to look a name up in it and the owner's write bit to make or
\* remove an entry.
CanList(root, mode) == root \/ BitAnd(mode, MODE_R_USR) # 0
CanSearch(root, mode) == root \/ BitAnd(mode, MODE_X_USR) # 0
CanWrite(root, mode) == root \/ BitAnd(mode, MODE_W_USR) # 0

\* the results of a lookup that fails (no component holds a slash): a
\* component is missing (ENOENT), a component that must be a directory is not
\* one (ENOTDIR), too many symbolic links were met (ELOOP), a directory on
\* the way may not be searched or written (EACCES), a file was to be made
\* where only a directory can be (EISDIR)
Missing == << <<SLASH>> >>
NotDir == << <<SLASH, SLASH>> >>
Loop == << <<SLASH, SLASH, SLASH>> >>
Denied == << <<SLASH, SLASH, SLASH, SLASH>> >>
IsDir == << <<SLASH, SLASH, SLASH, SLASH, SLASH>> >>
Failed(r) == r \in {Missing, NotDir, Loop, Denied, IsDir}

\* the exception Python raises for a failed lookup
ErrorOf(r) ==
    IF r = Missing THEN "FileNotFoundError"
    ELSE IF r = NotDir THEN "NotADirectoryError"
    ELSE IF r = Denied THEN "PermissionError"
    ELSE IF r = IsDir THEN "IsADirectoryError"
    ELSE "OSError"

Front(s) == SubSeq(s, 1, Len(s) - 1)
LastOf(s) == s[Len(s)]

\* the names "." and "..", and the directory ".." names in the directory
\* `dir` (the root is its own parent)
DOT == <<".">>
DOTDOT == <<".", ".">>
ParentDir(dir) == IF dir = <<>> THEN <<>> ELSE Front(dir)

\* the one element of a set of one element: Only({e(x) : x \in {v}}) is e(v)
\* with v worked out once, as a result kept in a local variable is
Only(S) == CHOOSE x \in S : TRUE

FsPut(f, path, node) == [q \in DOMAIN f \cup {path} |-> IF q = path THEN node ELSE f[q]]
FsDel(f, path) == [q \in DOMAIN f \ {path} |-> f[q]]

\* The pieces the kernel walks for a path string (a path asked for, or the
\* target of a symbolic link): its names, "." among them, and after the last
\* name the mark of a trailing slash, which asks for a directory.
IsName(piece) == piece # <<>>
Names(p) == SelectSeq(StrSplit(p, SLASH), IsName)
SlashMark == <<SLASH>>
EndsInSlash(p) == EndsWith(p, SLASH) /\ Names(p) # <<>>
Pieces(p) ==
    Only({IF names # <<>> /\ EndsWith(p, SLASH) THEN Append(names, SlashMark) ELSE names :
          names \in {Names(p)}})
OnlyMarks(pieces) == pieces # <<>> /\ \A i \in DOMAIN pieces : pieces[i] = SlashMark

\* Path resolution as the kernel does it, one piece at a time.  A point of
\* the walk is [end, cur, rest, fuel]: `cur` is the directory reached so far
\* (at the end: what the lookup gives), `rest` the pieces still to walk,
\* `fuel` the symbolic links that may still be followed.  A name is looked up
\* in a directory the process may search.  Symbolic links met on the way are
\* followed (the last one only when `follow`, or when a trailing slash comes
\* after it), at most `fuel` of them over the whole walk.  With `create`
\* (open with O_CREAT) a last name that is not there gives the place where it
\* would be made, and a last name with a trailing slash is refused.
WalkEnd(c, r) == [c EXCEPT !.end = TRUE, !.cur = r]

WalkStep(f, c, follow, create, root) ==
    IF c.end THEN c
    ELSE IF c.rest = <<>> THEN WalkEnd(c, c.cur)
    ELSE LET nxt  == Append(c.cur, Head(c.rest))
             more == Tail(c.rest)
         IN  IF f[c.cur].type # "dir" THEN WalkEnd(c, NotDir)
             ELSE IF Head(c.rest) = SlashMark THEN [c EXCEPT !.rest = more]
             ELSE IF ~CanSearch(root, f[c.cur].mode) THEN WalkEnd(c, Denied)
             ELSE IF Head(c.rest) = DOT THEN [c EXCEPT !.rest = more]
             ELSE IF Head(c.rest) = DOTDOT
             THEN [c EXCEPT !.cur = ParentDir(@), !.rest = more]
             ELSE IF create /\ OnlyMarks(more) THEN WalkEnd(c, IsDir)
             ELSE IF nxt \notin DOMAIN f
             THEN WalkEnd(c, IF create /\ more = <<>> THEN nxt ELSE Missing)
             ELSE IF f[nxt].type = "link" /\ (follow \/ more # <<>>)
             THEN IF c.fuel = 0 THEN WalkEnd(c, Loop)
                  ELSE [c EXCEPT !.cur  = IF StartsWith(f[nxt].target, SLASH) THEN <<>> ELSE @,
                                 !.rest = Pieces(f[nxt].target) \o more,
                                 !.fuel = @ - 1]
             ELSE [c EXCEPT !.cur = nxt, !.rest = more]

\* the point reached from `c` after `n` steps, or where the walk ended
RECURSIVE WalkFor(_, _, _, _, _, _)
WalkFor(f, c, n, follow, create, root) ==
    IF c.end \/ n = 1 THEN WalkStep(f, c, follow, create, root)
    ELSE Only({WalkFor(f, m, n - (n \div 2), follow, create, root) :
               m \in {WalkFor(f, c, n \div 2, follow, create, root)}})

\* the walk from `c` to its end, `n` steps and then as many again
RECURSIVE WalkOn(_, _, _, _, _, _)
WalkOn(f, c, n, follow, create, root) ==
    Only({IF m.end THEN m.cur ELSE WalkOn(f, m, 2 * n, follow, create, root) :
          m \in {WalkFor(f, c, n, follow, create, root)}})

Walk(f, cur, rest, follow, create, fuel, root) ==
    Only({WalkOn(f, c, 1, follow, create, root) :
          c \in {[end |-> FALSE, cur |-> cur, rest |-> rest, fuel |-> fuel]}})

\* the kernel follows at most 40 symbolic links in one lookup
MAXSYMLINKS == 40

\* stat-like and lstat-like lookup of pieces
Real(f, pieces, root) == Walk(f, <<>>, pieces, TRUE, FALSE, MAXSYMLINKS, root)
LReal(f, pieces, root) == Walk(f, <<>>, pieces, FALSE, FALSE, MAXSYMLINKS, root)

\* stat and lstat of a path string; the empty string names nothing
Stat(f, p, root) == IF p = <<>> THEN Missing ELSE Real(f, Pieces(p), root)
Lstat(f, p, root) == IF p = <<>> THEN Missing ELSE LReal(f, Pieces(p), root)

\* os.path.exists, os.path.islink on a path string
os_path_exists(f, p, root) == ~Failed(Stat(f, p, root))
os_path_islink(f, p, root) ==
    \E r \in {Lstat(f, p, root)} : ~Failed(r) /\ f[r].type = "link"

\* os.readlink: the target, or the exception raised (EINVAL, a plain OSError,
\* for what is not a symbolic link)
os_readlink(f, p, root) ==
    Only({IF Failed(r) THEN [val |-> <<>>, err |-> ErrorOf(r)]
          ELSE IF f[r].type # "link" THEN [val |-> <<>>, err |-> "OSError"]
          ELSE [val |-> f[r].target, err |-> ""] :
          r \in {Lstat(f, p, root)}})

\* the absolute path string of resolved components
RECURSIVE SlashJoin(_)
SlashJoin(comps) ==
    IF comps = <<>> THEN <<>> ELSE <<SLASH>> \o Head(comps) \o SlashJoin(Tail(comps))
PathOf(comps) == IF comps = <<>> THEN <<SLASH>> ELSE SlashJoin(comps)

\* the entry `last` of the directory the lookup `par` ended in: the parent
\* must be a directory the process may search, "." names the parent itself
\* and ".." the directory above it
ParentEntry(f, par, last, root) ==
    IF Failed(par) THEN par
    ELSE IF f[par].type # "dir" THEN NotDir
    ELSE IF ~CanSearch(root, f[par].mode) THEN Denied
    ELSE IF last = DOT THEN par
    ELSE IF last = DOTDOT THEN ParentDir(par)
    ELSE Append(par, last)

\* The directory entry a path string names for mkdir, symlink and unlink:
\* its parent directory, resolved and searched, with the last name appended,
\* there or not; the directory itself when the path ends in "." or is the
\* root; a failed lookup without such a parent.
NewEntry(f, p, root) ==
    Only({IF p = <<>> THEN Missing
          ELSE IF names = <<>> THEN <<>>
          ELSE Only({ParentEntry(f, par, LastOf(names), root) :
                     par \in {Real(f, Front(names), root)}}) :
          names \in {Names(p)}})

\* os.mkdir(p): the new filesystem and the exception raised ("" if none)
os_mkdir(f, p, root) ==
    Only({IF Failed(e) THEN [fs |-> f, err |-> ErrorOf(e)]
          ELSE IF e \in DOMAIN f THEN [fs |-> f, err |-> "FileExistsError"]
          ELSE IF ~CanWrite(root, f[Front(e)].mode) THEN [fs |-> f, err |-> "PermissionError"]
          ELSE [fs |-> FsPut(f, e, DirNode), err |-> ""] :
          e \in {NewEntry(f, p, root)}})

\* os.makedirs(name) with exist_ok=False, as os.py writes it
RECURSIVE os_makedirs(_, _, _)
os_makedirs(f, name, root) ==
    LET h0   == PathSplitHead(name)
        t0   == PathSplitTail(name)
        head == IF t0 = <<>> THEN PathSplitHead(h0) ELSE h0
        tail == IF t0 = <<>> THEN PathSplitTail(h0) ELSE t0
    IN  IF head # <<>> /\ tail # <<>> /\ ~os_path_exists(f, head, root)
        THEN Only({IF h.err \notin {"", "FileExistsError"} THEN h
                   ELSE IF tail = <<".">> THEN [fs |-> h.fs, err |-> ""]
                   ELSE os_mkdir(h.fs, name, root) :
                   h \in {os_makedirs(f, head, root)}})
        ELSE os_mkdir(f, name, root)

\* os.symlink(target, p); the kernel refuses an empty target, and a name with
\* a trailing slash that is not there
os_symlink(f, target, p, root) ==
    Only({IF target = <<>> THEN [fs |-> f, err |-> "FileNotFoundError"]
          ELSE IF Failed(e) THEN [fs |-> f, err |-> ErrorOf(e)]
          ELSE IF e \in DOMAIN f THEN [fs |-> f, err |-> "FileExistsError"]
          ELSE IF EndsInSlash(p) THEN [fs |-> f, err |-> "FileNotFoundError"]
          ELSE IF ~CanWrite(root, f[Front(e)].mode) THEN [fs |-> f, err |-> "PermissionError"]
          ELSE [fs |-> FsPut(f, e, LinkNode(target)), err |-> ""] :
          e \in {NewEntry(f, p, root)}})

\* os.unlink(p); a directory is refused, and so is anything else named with
\* a trailing slash
os_unlink(f, p, root) ==
    Only({IF Failed(e) THEN [fs |-> f, err |-> ErrorOf(e)]
          ELSE IF names = <<>> \/ LastOf(names) \in {DOT, DOTDOT}
          THEN [fs |-> f, err |-> "IsADirectoryError"]
          ELSE IF e \notin DOMAIN f THEN [fs |-> f, err |-> "FileNotFoundError"]
          ELSE IF EndsWith(p, SLASH)
          THEN [fs |-> f, err |-> IF f[e].type = "dir" THEN "IsADirectoryError"
                                 ELSE "NotADirectoryError"]
          ELSE IF ~CanWrite(root, f[Front(e)].mode) THEN [fs |-> f, err |-> "PermissionError"]
          ELSE IF f[e].type = "dir" THEN [fs |-> f, err |-> "IsADirectoryError"]
          ELSE [fs |-> FsDel(f, e), err |-> ""] :
          e \in {NewEntry(f, p, root)}, names \in {Names(p)}})

\* Where os.open(O_CREAT | O_WRONLY) of `comps` makes or finds its file: a
\* symbolic link in the last place is followed, so a dangling link has its
\* target made
CreatePlace(f, comps, root) == Walk(f, <<>>, comps, TRUE, TRUE, MAXSYMLINKS, root)

\* pathlib.Path.touch(): os.utime when the path resolves, else
\* os.open(O_CREAT | O_WRONLY) and close.  pathlib keeps the components of
\* the path only, so a trailing slash or "." in it plays no part.
\* os.open(path, O_CREAT | O_WRONLY) and close; a file that is there is
\* opened for writing, which its owner may do when the owner's write bit is set
path_open_creat(f, comps, root) ==
    Only({IF Failed(e) THEN [fs |-> f, err |-> ErrorOf(e)]
          ELSE IF e \in DOMAIN f
          THEN [fs |-> f, err |-> IF f[e].type = "dir" THEN "IsADirectoryError"
                                 ELSE IF ~CanWrite(root, f[e].mode) THEN "PermissionError"
                                 ELSE ""]
          ELSE IF ~CanWrite(root, f[Front(e)].mode) THEN [fs |-> f, err |-> "PermissionError"]
          ELSE [fs |-> FsPut(f, e, FileNode), err |-> ""] :
          e \in {CreatePlace(f, comps, root)}})

path_touch(f, p, root) ==
    Only({IF ~Failed(Real(f, comps, root)) THEN [fs |-> f, err |-> ""]
          ELSE path_open_creat(f, comps, root) :
          comps \in {Components(p)}})


-----------------------------------------------------------------------------
(* Values a call returns: None, an int, a bool, or a raised exception *)

RNone == [kind |-> "None", val |-> 0, exc |-> ""]
RInt(n) == [kind |-> "int", val |-> n, exc |-> ""]
RBool(b) == [kind |-> "bool", val |-> IF b THEN 1 ELSE 0, exc |-> ""]
RRaise(x) == [kind |-> "raise", val |-> 0, exc |-> x]

\* Python truth value of a returned value
Truthy(r) == r.kind \in {"int", "bool"} /\ r.val # 0

\* a filesystem call in the trace of a call
Ev(cmd) == [cmd |-> cmd, status |-> 0]

\* os.WEXITSTATUS(status)
WEXITSTATUS(status) == (status \div 256) % 256

-----------------------------------------------------------------------------
(* The external transaction subsystem, cvmfs_server.  A command that exits  *)
(* 0 has taken effect: `transaction` leaves the in_transaction.lock marker, *)
(* `abort -f` and `publish` remove it.  A command that exits nonzero leaves *)
(* the marker as it was.                                                   *)

cvmfs_server_effect(lk, cmd, filesystem, status) ==
    IF status # 0 THEN lk
    ELSE IF cmd = "transaction" THEN lk \cup {filesystem}
    ELSE lk \ {filesystem}

\* os.system("cvmfs_server <cmd> <filesystem>") in program state s
os_system_cvmfs(s, cmd, filesystem, status) ==
    [s EXCEPT !.lock = cvmfs_server_effect(@, cmd, filesystem, status),
              !.trace = Append(@, [cmd |-> cmd, status |-> status])]

-----------------------------------------------------------------------------
(* Transaction manager.  A program state s is                               *)
(* [in_txn, lock, fs, builds, trace]; an operation returns [s, ret].        *)

abort_txn(s, filesystem, status) ==
    [s |-> os_system_cvmfs(s, "abort", filesystem, status), ret |-> RInt(status)]

\* start_txn that goes on to the begin whatever the recovery abort returned
start_txn_IgnoresAbortResult(s, filesystem, st_abort, st_begin) ==
    IF s.in_txn THEN [s |-> s, ret |-> RInt(0)]
    ELSE LET a  == IF filesystem \in s.lock THEN abort_txn(s, filesystem, st_abort)
                   ELSE [s |-> s, ret |-> RInt(0)]
             s1 == os_system_cvmfs(a.s, "transaction", filesystem, st_begin)
         IN  IF st_begin # 0 THEN [s |-> s1, ret |-> RInt(1)]
             ELSE [s |-> [s1 EXCEPT !.in_txn = TRUE], ret |-> RNone]

\* start_txn without the test of the flag on entry
start_txn_Unguarded(s, filesystem, st_abort, st_begin) ==
    LET lingering == filesystem \in s.lock
        a  == IF lingering THEN abort_txn(s, filesystem, st_abort)
              ELSE [s |-> s, ret |-> RInt(0)]
        s1 == os_system_cvmfs(a.s, "transaction", filesystem, st_begin)
    IN  IF lingering /\ Truthy(a.ret) THEN [s |-> a.s, ret |-> RInt(1)]
        ELSE IF st_begin # 0 THEN [s |-> s1, ret |-> RInt(1)]
        ELSE [s |-> [s1 EXCEPT !.in_txn = TRUE], ret |-> RNone]

start_txn(s, filesystem, st_abort, st_begin) ==
    IF s.in_txn THEN [s |-> s, ret |-> RInt(0)]
    ELSE LET lingering == filesystem \in s.lock
             a  == IF lingering THEN abort_txn(s, filesystem, st_abort)
                   ELSE [s |-> s, ret |-> RInt(0)]
             s1 == os_system_cvmfs(a.s, "transaction", filesystem, st_begin)
         IN  IF lingering /\ Truthy(a.ret) THEN [s |-> a.s, ret |-> RInt(1)]
             ELSE IF st_begin # 0 THEN [s |-> s1, ret |-> RInt(1)]
             ELSE [s |-> [s1 EXCEPT !.in_txn = TRUE], ret |-> RNone]

publish_txn(s, filesystem, status) ==
    IF s.in_txn
    THEN [s |-> os_system_cvmfs([s EXCEPT !.in_txn = FALSE], "publish", filesystem, status),
          ret |-> RInt(status)]
    ELSE [s |-> s, ret |-> RInt(0)]


-----------------------------------------------------------------------------
(* Tag linker *)

\* lines 88-97: the tag path is absent, a symbolic link, or something else
\* a linker that replaces whatever it finds at the tag path
\* lines 89 and 93: os.symlink(image_dir, tag_dir) after the calls `done`
new_link(s, f, image_dir, tag_dir, done) ==
    Only({[s   |-> [s EXCEPT !.fs = r.fs, !.trace = @ \o done \o <<Ev("symlink")>>],
           ret |-> IF r.err = "" THEN RInt(0) ELSE RRaise(r.err)] :
          r \in {os_symlink(f, image_dir, tag_dir, s.superuser)}})

link_tag_ReplacesOccupied(s, image_dir, tag_dir) ==
    IF ~os_path_exists(s.fs, tag_dir, s.superuser)
    THEN new_link(s, s.fs, image_dir, tag_dir, <<>>)
    ELSE IF /\ os_path_islink(s.fs, tag_dir, s.superuser)
            /\ os_readlink(s.fs, tag_dir, s.superuser).val = image_dir
    THEN [s |-> s, ret |-> RInt(0)]
    ELSE Only({new_link(s, u, image_dir, tag_dir, <<Ev("unlink")>>) :
               u \in {FsDel(s.fs, LReal(s.fs, Pieces(tag_dir), s.superuser))}})

link_tag(s, image_dir, tag_dir) ==
    IF ~os_path_exists(s.fs, tag_dir, s.superuser)
    THEN new_link(s, s.fs, image_dir, tag_dir, <<>>)
    ELSE IF os_path_islink(s.fs, tag_dir, s.superuser)
    THEN IF os_readlink(s.fs, tag_dir, s.superuser).val # image_dir
         THEN Only({IF u.err # ""
                    THEN [s   |-> [s EXCEPT !.fs = u.fs, !.trace = Append(@, Ev("unlink"))],
                          ret |-> RRaise(u.err)]
                    ELSE new_link(s, u.fs, image_dir, tag_dir, <<Ev("unlink")>>) :
                    u \in {os_unlink(s.fs, tag_dir, s.superuser)}})
         ELSE [s |-> s, ret |-> RInt(0)]
    ELSE [s |-> s, ret |-> RInt(1)]

\* lines 79-86: the parent of the tag path is made when it is not there
ensure_parent(s, parent_dir) ==
    IF os_path_exists(s.fs, parent_dir, s.superuser) THEN [s |-> s, err |-> ""]
    ELSE Only({[s   |-> [s EXCEPT !.fs = m.fs, !.trace = Append(@, Ev("makedirs"))],
                err |-> m.err] :
               m \in {os_makedirs(s.fs, parent_dir, s.superuser)}})

create_symlink(s, image_dir, tag_dir) ==
    Only({IF m.err \notin {"", "FileExistsError"}
          THEN [s |-> m.s, ret |-> RRaise(m.err)]
          ELSE link_tag(m.s, image_dir, tag_dir) :
          m \in {ensure_parent(s, PathSplitHead(tag_dir))}})


-----------------------------------------------------------------------------
(* Image writer *)

\* os.chmod(image_dir, 0o0755)
MODE_IMAGE_DIR == 493

\* lines 113-118: the mode a file is left with
fix_file_mode(old_mode) ==
    IF BitAnd(old_mode, MODE_R_ANY) = 0 THEN BitOr(old_mode, MODE_R_USR) ELSE old_mode

\* lines 124-132: the mode a directory is left with; both tests read old_mode,
\* and the second chmod, when it happens, is the one that lasts
fix_dir_mode(old_mode) ==
    LET m1 == IF BitAnd(old_mode, MODE_X_ANY) = 0
              THEN BitOr(old_mode, MODE_X_USR) ELSE old_mode
    IN  IF BitAnd(old_mode, MODE_W_ANY) = 0 THEN BitOr(old_mode, MODE_W_USR) ELSE m1

IsUnder(base, q) == Len(q) > Len(base) /\ SubSeq(q, 1, Len(base)) = base

Children(f, dir) == {q \in DOMAIN f : Len(q) = Len(dir) + 1 /\ Front(q) = dir}

\* lines 111-132: the body of the loop for one directory, on its entries
\* (a symbolic link is left as it is)
fix_entries(f, dir) ==
    [q \in DOMAIN f |->
        IF q \notin Children(f, dir) THEN f[q]
        ELSE IF f[q].type = "file" THEN [f[q] EXCEPT !.mode = fix_file_mode(@)]
        ELSE IF f[q].type = "dir" THEN [f[q] EXCEPT !.mode = fix_dir_mode(@)]
        ELSE f[q]]

\* os.walk(dir), top down, with the loop body: the outcomes [fs, err] it can
\* end in.  A directory that cannot be listed is passed over in silence; the
\* first os.lstat in a directory that cannot be searched raises; the
\* subdirectories (symbolic links aside) are entered after the body has run,
\* in the order os.scandir gave them, which is any order.
RECURSIVE walk_dir(_, _, _)
RECURSIVE walk_dirs(_, _, _)
walk_dir(f, dir, root) ==
    IF ~CanList(root, f[dir].mode) THEN {[fs |-> f, err |-> ""]}
    ELSE IF Children(f, dir) # {} /\ ~CanSearch(root, f[dir].mode)
    THEN {[fs |-> f, err |-> "PermissionError"]}
    ELSE UNION {walk_dirs(f1, dirs, root) :
                f1 \in {fix_entries(f, dir)},
                dirs \in {{q \in Children(f, dir) : f[q].type = "dir"}}}
walk_dirs(f, dirs, root) ==
    IF dirs = {} THEN {[fs |-> f, err |-> ""]}
    ELSE UNION {UNION {IF o.err # "" THEN {o} ELSE walk_dirs(o.fs, dirs \ {d}, root) :
                       o \in walk_dir(f, d, root)} : d \in dirs}

\* lines 110-132: os.walk over the tree below image_dir, `base` being what
\* image_dir resolves to; nothing is walked when that is not a directory the
\* process can reach
fix_permissions(f, base, root) ==
    IF Failed(base) \/ f[base].type # "dir" THEN {[fs |-> f, err |-> ""]}
    ELSE walk_dir(f, base, root)

\* os.chmod(path, mode) on a resolved path
os_chmod(f, real, mode) == [f EXCEPT ![real].mode = mode]

STR_release == <<"-", "r", "e", "l", "e", "a", "s", "e">>
STR_etc == <<"e", "t", "c">>
STR_cvmfscatalog == <<".", "c", "v", "m", "f", "s", "c", "a", "t", "a", "l", "o", "g">>

EndsWithStr(name, suffix) ==
    Len(name) >= Len(suffix)
    /\ SubSeq(name, Len(name) - Len(suffix) + 1, Len(name)) = suffix

\* list(image_path.glob('etc/*-release')) is not empty; pathlib passes over
\* an etc it cannot reach and a directory it cannot list
has_release_file(f, base, root) ==
    \E etc \in {Real(f, Append(base, STR_etc), root)} :
        /\ ~Failed(etc)
        /\ f[etc].type = "dir"
        /\ CanList(root, f[etc].mode)
        /\ \E q \in Children(f, etc) : EndsWithStr(LastOf(q), STR_release)

bindpoints ==
    << <<"s", "r", "v">>, <<"c", "v", "m", "f", "s">>, <<"d", "e", "v">>,
       <<"p", "r", "o", "c">>, <<"s", "y", "s">> >>

\* Path.mkdir(parents=False, exist_ok=True): FileNotFoundError is raised as
\* it is; any other error of os.mkdir is dropped when is_dir() finds a
\* directory there, and is_dir() itself raises when it may not look
path_mkdir_exist_ok(f, comps, root) ==
    Only({IF r.err \in {"", "FileNotFoundError"} THEN r
          ELSE Only({IF there = Denied THEN [fs |-> f, err |-> "PermissionError"]
                     ELSE IF ~Failed(there) /\ f[there].type = "dir"
                     THEN [fs |-> f, err |-> ""]
                     ELSE r :
                     there \in {Real(f, comps, root)}}) :
          r \in {os_mkdir(f, PathOf(comps), root)}})

\* lines 139-143: the bind points, made in order until one raises
RECURSIVE add_bindpoints(_, _, _, _)
add_bindpoints(f, base, points, root) ==
    IF points = <<>> THEN [fs |-> f, err |-> ""]
    ELSE Only({IF r.err # "" THEN r ELSE add_bindpoints(r.fs, base, Tail(points), root) :
               r \in {path_mkdir_exist_ok(f, Append(base, Head(points)), root)}})

-----------------------------------------------------------------------------
(* Builder and write_docker_image *)

\* The builder, "singularity build --sandbox image_dir docker://image": it
\* leaves the entries of `tree` (relative path -> node) below image_dir.
singularity_build(f, image_dir, tree) ==
    Only({[q \in DOMAIN f \cup {base \o e.rel : e \in tree} |->
              IF q \in DOMAIN f /\ \A e \in tree : base \o e.rel # q THEN f[q]
              ELSE (CHOOSE e \in tree : base \o e.rel = q).node] :
          base \in {Stat(f, image_dir, TRUE)}})

\* lines 136-147 after a pass that left `f`: the chmod of the directory
\* itself, the bind points and the touch of the sentinel; `touched` tells
\* whether line 147 was reached
\* lines 139-143 on `f`: the bind points are made when a release file is found
bind_image(f, base, root) ==
    IF has_release_file(f, base, root)
    THEN add_bindpoints(f, base, bindpoints, root)
    ELSE [fs |-> f, err |-> ""]

finish_image(f, image_dir, base, root) ==
    IF Failed(base) THEN [fs |-> f, err |-> ErrorOf(base), touched |-> FALSE]
    ELSE Only({IF b.err # "" THEN [fs |-> b.fs, err |-> b.err, touched |-> FALSE]
               ELSE Only({[fs |-> t.fs, err |-> t.err, touched |-> TRUE] :
                          t \in {path_touch(b.fs, PathJoin(<<image_dir, STR_cvmfscatalog>>),
                                            root)}}) :
               b \in {Only({bind_image(f1, base, root) :
                            f1 \in {os_chmod(f, base, MODE_IMAGE_DIR)}})}})

\* lines 110-147: the permission pass and what follows it, as the outcomes
\* [fs, err, touched] it can end in
post_build(f, image_dir, root) ==
    UNION {{IF w.err # "" THEN [fs |-> w.fs, err |-> w.err, touched |-> FALSE]
            ELSE finish_image(w.fs, image_dir, base, root) :
            w \in fix_permissions(f, base, root)} :
           base \in {Stat(f, image_dir, root)}}

\* the outcomes [s, ret] of write_docker_image when the builder ends with
\* `status` and leaves `tree`
\* lines 105-108: the builder runs, and a failed build ends the call
built(s, image_dir, status, tree) ==
    [s EXCEPT !.fs = singularity_build(s.fs, image_dir, tree),
              !.builds = Append(@, image_dir),
              !.trace = Append(@, [cmd |-> "build", status |-> status])]

write_docker_image(s, image_dir, filesystem, image, status, tree) ==
    UNION {IF WEXITSTATUS(status) # 0 THEN {[s |-> s0, ret |-> RBool(FALSE)]}
           ELSE {[s |-> [s0 EXCEPT !.fs = p.fs,
                                   !.trace = IF p.touched THEN Append(@, Ev("touch")) ELSE @],
                  ret |-> IF p.err # "" THEN RRaise(p.err) ELSE RBool(TRUE)] :
                 p \in post_build(s0.fs, image_dir, s.superuser)} :
           s0 \in {built(s, image_dir, status, tree)}}

-----------------------------------------------------------------------------
(* Paths of the publish orchestrator.  An image_info is a record            *)
(* [registry, namespace, project, digest, tag] of strings; the digest is    *)
(* always supplied (the docker pull of lines 157-160 is not modelled).      *)

STR_cvmfs_root == <<"/", "c", "v", "m", "f", "s">>
STR_digests == <<".", "d", "i", "g", "e", "s", "t", "s">>

\* ImageInfo.name()
name(image_info) ==
    SlashJoinNonEmpty(<<image_info.registry, image_info.namespace, image_info.project>>)
        \o <<COLON>> \o image_info.tag

\* line 171, from the two pieces of digest.split(':')
DigestPath(hash_alg, hash) ==
    PathJoin(<<STR_digests, hash_alg, Slice(hash, 0, 2), hash>>)

\* lines 172-173
ImageDir(image_info, filesystem, rootdir, digest_path) ==
    PathJoin(<<STR_cvmfs_root, filesystem, rootdir, image_info.namespace,
               image_info.project, digest_path>>)

\* lines 177-178
TagDir(image_info, filesystem, rootdir) ==
    PathJoin(<<STR_cvmfs_root, filesystem, rootdir, image_info.namespace,
               image_info.project, image_info.tag>>)

-----------------------------------------------------------------------------
(* Inputs *)

STR_sha256 == <<"s", "h", "a", "2", "5", "6">>

Filesystems == {<<"f">>}
Rootdirs == {<<>>}
Registries == {<<>>}
Namespaces == {<<"n">>, <<"m">>}
Projects == {<<"p">>, <<"q">>}
Tags == {<<"a">>, <<"b">>}

DIGEST_abc == STR_sha256 \o <<COLON>> \o <<"a", "b", "c">>
DIGEST_abd == STR_sha256 \o <<COLON>> \o <<"a", "b", "d">>
Digests == {DIGEST_abc, DIGEST_abd}

\* every tag and digest of project p in namespace n, and one image of
\* project p in namespace m and one of project q in namespace n
ImageInfos ==
    {i \in [registry : Registries, namespace : Namespaces, project : Projects,
            digest : Digests, tag : Tags] :
        \/ i.namespace = <<"n">> /\ i.project = <<"p">>
        \/ /\ i.tag = <<"a">> /\ i.digest = DIGEST_abc
           /\ (i.namespace = <<"n">> \/ i.project = <<"p">>)}

\* exit statuses as os.system returns them: 0, exit code 1, killed by signal 9
TxnStatuses == {0, 256}
BuildStatuses == {0, 256, 9}

\* what the builder may leave: nothing; etc/os-release below a directory
\* the owner cannot write (0o500) with a file nobody can read (0o000); a
\* directory only its owner can list (0o400) that holds a file
EmptyTree == {}
OsTree == {[rel |-> <<STR_etc>>, node |-> DirMode(320)],
           [rel |-> <<STR_etc, <<"o", "s">> \o STR_release>>, node |-> FileMode(0)]}
LockedTree == {[rel |-> << <<"d">> >>, node |-> DirMode(256)],
               [rel |-> << <<"d">>, <<"f">> >>, node |-> FileMode(0)]}
Trees == {EmptyTree, OsTree, LockedTree}

-----------------------------------------------------------------------------
(* State machine *)

NoInfo == [registry |-> <<>>, namespace |-> <<>>, project |-> <<>>,
           digest |-> <<>>, tag |-> <<>>]

\* the program state the operations work on, and what a call remembers of it
Cur == [in_txn |-> in_txn, lock |-> lock, fs |-> fs, builds |-> builds, trace |-> trace,
        superuser |-> superuser]
Pre == [in_txn |-> in_txn, lock |-> lock, fs |-> fs]

NewCall(op, info, filesystem, rootdir, target, path) ==
    [op |-> op, info |-> info, filesystem |-> filesystem, rootdir |-> rootdir,
     target |-> target, path |-> path, pre |-> Pre]

\* the mounted repository, before anything is published
BaseFs ==
    LET dirs == {<<>>, <<Tail(STR_cvmfs_root)>>} \cup
                {<<Tail(STR_cvmfs_root), f>> : f \in Filesystems}
    IN  [q \in dirs |-> DirNode]

\* the same with a plain file where the tag of `info` would go
OccupiedFs(info, filesystem, rootdir) ==
    LET tag_dir == TagDir(info, filesystem, rootdir)
        m == os_makedirs(BaseFs, PathSplitHead(tag_dir), TRUE)
    IN  path_touch(m.fs, tag_dir, TRUE).fs

InitialFs ==
    {BaseFs} \cup
    {OccupiedFs(i, f, r) : i \in {j \in ImageInfos : /\ j.namespace = <<"n">>
                                                     /\ j.project = <<"p">>
                                                     /\ j.tag = <<"a">>},
                           f \in Filesystems, r \in Rootdirs}

Init ==
    /\ in_txn = FALSE
    /\ lock \in SUBSET Filesystems
    /\ fs \in InitialFs
    /\ builds = <<>>
    /\ calls = 0
    /\ pc = "idle"
    /\ call = NewCall("init", NoInfo, <<>>, <<>>, <<>>, <<>>)
    /\ ret = RNone
    /\ trace = <<>>
    /\ superuser \in BOOLEAN

\* the program state becomes s
Becomes(s) ==
    /\ in_txn' = s.in_txn
    /\ lock' = s.lock
    /\ fs' = s.fs
    /\ builds' = s.builds
    /\ trace' = s.trace

\* the running call returns (or raises) r
Return(r) == pc' = "idle" /\ ret' = r /\ UNCHANGED superuser

\* the running call goes on at step p
Goto(p) == pc' = p /\ ret' = RNone /\ UNCHANGED superuser

-----------------------------------------------------------------------------
(* publish_docker_image, step by step *)

\* the two pieces of digest.split(':') of the running call (line 162)
hash_alg == StrSplit(call.info.digest, COLON)[1]
hash == StrSplit(call.info.digest, COLON)[2]
digest_path == DigestPath(hash_alg, hash)
image_dir == ImageDir(call.info, call.filesystem, call.rootdir, digest_path)
tag_dir == TagDir(call.info, call.filesystem, call.rootdir)

\* the call going on to the digest directory whatever start_txn returned
Publish_IgnoresStartResult(infos) ==
    /\ pc = "idle"
    /\ calls < MaxCalls
    /\ \E info \in infos, filesystem \in Filesystems, rootdir \in Rootdirs,
          st_abort \in TxnStatuses, st_begin \in TxnStatuses :
          \E t \in {start_txn([Cur EXCEPT !.trace = <<>>], filesystem, st_abort, st_begin)} :
              /\ calls' = calls + 1
              /\ call' = NewCall("publish_docker_image", info, filesystem, rootdir,
                                 <<>>, <<>>)
              /\ IF Len(StrSplit(info.digest, COLON)) # 2
                 THEN /\ UNCHANGED <<in_txn, lock, fs, builds>>
                      /\ trace' = <<>>
                      /\ Return(RRaise("ValueError"))
                 ELSE /\ Becomes(t.s)
                      /\ Goto("ensure")

\* lines 154-167: the call, the digest split and start_txn
Publish(infos) ==
    /\ pc = "idle"
    /\ calls < MaxCalls
    /\ \E info \in infos, filesystem \in Filesystems, rootdir \in Rootdirs,
          st_abort \in TxnStatuses, st_begin \in TxnStatuses :
          \E t \in {start_txn([Cur EXCEPT !.trace = <<>>], filesystem, st_abort, st_begin)} :
              /\ calls' = calls + 1
              /\ call' = NewCall("publish_docker_image", info, filesystem, rootdir,
                                 <<>>, <<>>)
              /\ IF Len(StrSplit(info.digest, COLON)) # 2
                 THEN /\ UNCHANGED <<in_txn, lock, fs, builds>>
                      /\ trace' = <<>>
                      /\ Return(RRaise("ValueError"))
                 ELSE /\ Becomes(t.s)
                      /\ IF Truthy(t.ret) THEN Return(t.ret) ELSE Goto("ensure")

PublishCall == Publish(ImageInfos)

\* the step without the short cut for a directory that exists
Ensure_NoShortCut ==
    /\ pc = "ensure"
    /\ UNCHANGED <<calls, call>>
    /\ IF os_path_exists(fs, image_dir, superuser)
       THEN /\ UNCHANGED <<in_txn, lock, fs, builds, trace>>
            /\ Goto("build")
       ELSE \E m \in {os_makedirs(fs, image_dir, superuser)} :
              /\ fs' = m.fs
              /\ trace' = Append(trace, Ev("makedirs"))
              /\ UNCHANGED <<in_txn, lock, builds>>
              /\ IF m.err # "" THEN Return(RRaise(m.err)) ELSE Goto("build")

\* lines 171-175: the existence check of the digest directory and os.makedirs
Ensure ==
    /\ pc = "ensure"
    /\ UNCHANGED <<calls, call>>
    /\ IF os_path_exists(fs, image_dir, superuser)
       THEN /\ UNCHANGED <<in_txn, lock, fs, builds, trace>>
            /\ Return(RNone)
       ELSE \E m \in {os_makedirs(fs, image_dir, superuser)} :
              /\ fs' = m.fs
              /\ trace' = Append(trace, Ev("makedirs"))
              /\ UNCHANGED <<in_txn, lock, builds>>
              /\ IF m.err # "" THEN Return(RRaise(m.err)) ELSE Goto("build")

\* line 176: write_docker_image
Build ==
    /\ pc = "build"
    /\ UNCHANGED <<calls, call>>
    /\ \E status \in BuildStatuses, tree \in Trees :
          \E w \in write_docker_image(Cur, image_dir, call.filesystem, name(call.info),
                                      status, tree) :
              /\ Becomes(w.s)
              /\ IF w.ret.kind = "raise" THEN Return(w.ret)
                 ELSE IF Truthy(w.ret) THEN Goto("link")
                 ELSE Goto("abort")

\* lines 177-179: create_symlink; what it returns is dropped
Link ==
    /\ pc = "link"
    /\ UNCHANGED <<calls, call>>
    /\ \E c \in {create_symlink(Cur, digest_path, tag_dir)} :
          /\ Becomes(c.s)
          /\ IF c.ret.kind = "raise" THEN Return(c.ret) ELSE Goto("commit")

\* line 180: publish_txn; the function then falls off its end
Commit ==
    /\ pc = "commit"
    /\ UNCHANGED <<calls, call>>
    /\ \E status \in TxnStatuses :
          \E p \in {publish_txn(Cur, call.filesystem, status)} :
              /\ Becomes(p.s)
              /\ Return(RNone)

\* line 182: abort_txn; the function then falls off its end
Abort ==
    /\ pc = "abort"
    /\ UNCHANGED <<calls, call>>
    /\ \E status \in TxnStatuses :
          \E a \in {abort_txn(Cur, call.filesystem, status)} :
              /\ Becomes(a.s)
              /\ Return(RNone)

Next == PublishCall \/ Ensure \/ Build \/ Link \/ Commit \/ Abort

Spec == Init /\ [][Next]_vars

-----------------------------------------------------------------------------
(* create_symlink called on its own: the tag linker against filesystems in  *)
(* which the link target exists or does not.                                *)

\* the repository with one digest directory already in place
BuiltFs(info, filesystem, rootdir) ==
    LET parts == StrSplit(info.digest, COLON)
    IN  os_makedirs(BaseFs, ImageDir(info, filesystem, rootdir,
                                     DigestPath(parts[1], parts[2])), TRUE).fs

\* the repository with a directory where the tag of `info` would go
DirOccupiedFs(info, filesystem, rootdir) ==
    os_makedirs(BaseFs, TagDir(info, filesystem, rootdir), TRUE).fs

LinkInitialFs ==
    InitialFs \cup
    {DirOccupiedFs(i, f, r) : i \in {j \in ImageInfos : j.namespace = <<"n">> /\ j.tag = <<"b">>},
                              f \in Filesystems, r \in Rootdirs} \cup
    {BuiltFs(i, f, r) : i \in {j \in ImageInfos : /\ j.namespace = <<"n">>
                                                  /\ j.project = <<"p">>
                                                  /\ j.tag = <<"a">>},
                        f \in Filesystems, r \in Rootdirs}

\* the targets and tag paths publish_docker_image would pass
LinkTargets == {DigestPath(StrSplit(d, COLON)[1], StrSplit(d, COLON)[2]) : d \in Digests}
TagPaths == {TagDir(i, f, r) : i \in ImageInfos, f \in Filesystems, r \in Rootdirs}

InitLink ==
    /\ in_txn = FALSE
    /\ lock = {}
    /\ fs \in LinkInitialFs
    /\ builds = <<>>
    /\ calls = 0
    /\ pc = "idle"
    /\ call = NewCall("init", NoInfo, <<>>, <<>>, <<>>, <<>>)
    /\ ret = RNone
    /\ trace = <<>>
    /\ superuser \in BOOLEAN

LinkCall ==
    /\ pc = "idle"
    /\ calls < MaxCalls
    /\ \E target \in LinkTargets, path \in TagPaths :
          \E c \in {create_symlink([Cur EXCEPT !.trace = <<>>], target, path)} :
              /\ calls' = calls + 1
              /\ call' = NewCall("create_symlink", NoInfo, <<>>, <<>>, target, path)
              /\ Becomes(c.s)
              /\ Return(c.ret)

NextLink == LinkCall

SpecLink == InitLink /\ [][NextLink]_vars

-----------------------------------------------------------------------------
(* create_symlink step by step: the replacement of lines 92-93 is two       *)
(* system calls, and another process reading the tag path may run between   *)
(* any two steps.  What it would read is the filesystem of the state.       *)

\* lines 76-91: up to the choice of the branch; the branches that make at
\* most one change to the tag path run to their return
TagCall ==
    /\ pc = "idle"
    /\ calls < MaxCalls
    /\ \E target \in LinkTargets, path \in TagPaths :
          /\ calls' = calls + 1
          /\ call' = NewCall("create_symlink", NoInfo, <<>>, <<>>, target, path)
          /\ IF /\ os_path_exists(fs, path, superuser)
                /\ os_path_islink(fs, path, superuser)
                /\ os_readlink(fs, path, superuser).err = ""
                /\ os_readlink(fs, path, superuser).val # target
             THEN /\ UNCHANGED <<in_txn, lock, fs, builds>>
                  /\ trace' = <<>>
                  /\ Goto("unlink")
             ELSE \E c \in {create_symlink([Cur EXCEPT !.trace = <<>>], target, path)} :
                      /\ Becomes(c.s)
                      /\ Return(c.ret)

\* line 92: os.unlink(tag_dir)
TagUnlink ==
    /\ pc = "unlink"
    /\ UNCHANGED <<calls, call, in_txn, lock, builds>>
    /\ \E u \in {os_unlink(fs, call.path, superuser)} :
          /\ fs' = u.fs
          /\ trace' = Append(trace, Ev("unlink"))
          /\ IF u.err # "" THEN Return(RRaise(u.err)) ELSE Goto("relink")

\* line 93: os.symlink(image_dir, tag_dir), and the return of line 97
TagRelink ==
    /\ pc = "relink"
    /\ UNCHANGED <<calls, call, in_txn, lock, builds>>
    /\ \E r \in {os_symlink(fs, call.target, call.path, superuser)} :
          /\ fs' = r.fs
          /\ trace' = Append(trace, Ev("symlink"))
          /\ Return(IF r.err = "" THEN RInt(0) ELSE RRaise(r.err))

NextTag == TagCall \/ TagUnlink \/ TagRelink

SpecTag == InitLink /\ [][NextTag]_vars

-----------------------------------------------------------------------------
(* write_docker_image on a digest directory just made, the builder leaving  *)
(* directories and files of any permission mode, the process being the      *)
(* superuser or not; the build and the pass that follows it are taken as    *)
(* two steps.                                                               *)

Modes == 0 .. 511

\* what the builder leaves: file x, directory d holding directory e holding
\* file y, all of mode m, and beside them a directory g of mode 0o755 holding
\* a file z nobody can read
ModeTree(m) == {[rel |-> << <<"x">> >>, node |-> FileMode(m)],
                [rel |-> << <<"d">> >>, node |-> DirMode(m)],
                [rel |-> << <<"d">>, <<"e">> >>, node |-> DirMode(m)],
                [rel |-> << <<"d">>, <<"e">>, <<"y">> >>, node |-> FileMode(m)],
                [rel |-> << <<"g">> >>, node |-> DirMode(493)],
                [rel |-> << <<"g">>, <<"z">> >>, node |-> FileMode(0)]}

ModeInfo == [registry |-> <<>>, namespace |-> <<"n">>, project |-> <<"p">>,
             digest |-> DIGEST_abc, tag |-> <<"a">>]

InitModes ==
    /\ in_txn = TRUE
    /\ lock = Filesystems
    /\ fs \in {BuiltFs(ModeInfo, f, r) : f \in Filesystems, r \in Rootdirs}
    /\ builds = <<>>
    /\ calls = 0
    /\ pc = "idle"
    /\ call = NewCall("init", NoInfo, <<>>, <<>>, <<>>, <<>>)
    /\ ret = RNone
    /\ trace = <<>>
    /\ superuser \in BOOLEAN

\* lines 105-107: the builder and the test of its status
WriteCall ==
    /\ pc = "idle"
    /\ calls = 0
    /\ \E filesystem \in Filesystems, rootdir \in Rootdirs,
          status \in BuildStatuses, m \in Modes :
          LET dir == ImageDir(ModeInfo, filesystem, rootdir,
                              DigestPath(STR_sha256, <<"a", "b", "c">>))
          IN  /\ os_path_exists(fs, dir, superuser)
              /\ calls' = calls + 1
              /\ call' = NewCall("write_docker_image", ModeInfo, filesystem, rootdir,
                                 <<>>, dir)
              /\ fs' = singularity_build(fs, dir, ModeTree(m))
              /\ builds' = Append(builds, dir)
              /\ trace' = <<[cmd |-> "build", status |-> status]>>
              /\ UNCHANGED <<in_txn, lock>>
              /\ IF WEXITSTATUS(status) # 0 THEN Return(RBool(FALSE))
                 ELSE Goto("normalize")

\* lines 110-149: the pass over what the builder left, and the return
WriteNormalize ==
    /\ pc = "normalize"
    /\ UNCHANGED <<calls, call, in_txn, lock, builds>>
    /\ \E p \in post_build(fs, call.path, superuser) :
          /\ fs' = p.fs
          /\ trace' = IF p.touched THEN Append(trace, Ev("touch")) ELSE trace
          /\ IF p.err # "" THEN Return(RRaise(p.err)) ELSE Return(RBool(TRUE))

NextModes == WriteCall \/ WriteNormalize

SpecModes == InitModes /\ [][NextModes]_vars

-----------------------------------------------------------------------------
(* publish_docker_image handed digests that are not <algorithm>:<hash> with *)
(* a hash: no hash, an algorithm no store knows, no algorithm, no colon.    *)

DIGEST_nohash == STR_sha256 \o <<COLON>>
DIGEST_oddalg == <<"x">> \o <<COLON>> \o <<"a", "b", "c">>
DIGEST_noalg == <<COLON>> \o <<"a", "b", "c">>
DIGEST_nocolon == <<"a", "b", "c">>
OddDigests == {DIGEST_nohash, DIGEST_oddalg, DIGEST_noalg, DIGEST_nocolon}

OddImageInfos ==
    {[registry |-> r, namespace |-> <<"n">>, project |-> <<"p">>, digest |-> d,
      tag |-> <<"a">>] :
        r \in Registries, d \in OddDigests}

PublishOddCall == Publish(OddImageInfos)

NextDigest == PublishOddCall \/ Ensure \/ Build \/ Link \/ Commit \/ Abort

SpecDigest == Init /\ [][NextDigest]_vars

-----------------------------------------------------------------------------
(* The transaction manager called on its own: start_txn, publish_txn and    *)
(* abort_txn in any order, in one process.                                  *)

MaxTxnCalls == 3

\* the repositories the calls name; the flag is one for the whole process
TxnFilesystems == Filesystems \cup {<<"g">>}

InitTxn ==
    /\ in_txn = FALSE
    /\ lock \in SUBSET TxnFilesystems
    /\ fs = BaseFs
    /\ builds = <<>>
    /\ calls = 0
    /\ pc = "idle"
    /\ call = NewCall("init", NoInfo, <<>>, <<>>, <<>>, <<>>)
    /\ ret = RNone
    /\ trace = <<>>
    /\ superuser \in BOOLEAN

StartTxnCall ==
    /\ pc = "idle"
    /\ calls < MaxTxnCalls
    /\ \E filesystem \in TxnFilesystems, st_abort \in TxnStatuses, st_begin \in TxnStatuses :
          \E t \in {start_txn([Cur EXCEPT !.trace = <<>>], filesystem, st_abort, st_begin)} :
              /\ calls' = calls + 1
              /\ call' = NewCall("start_txn", NoInfo, filesystem, <<>>, <<>>, <<>>)
              /\ Becomes(t.s)
              /\ Return(t.ret)

PublishTxnCall ==
    /\ pc = "idle"
    /\ calls < MaxTxnCalls
    /\ \E filesystem \in TxnFilesystems, status \in TxnStatuses :
          \E p \in {publish_txn([Cur EXCEPT !.trace = <<>>], filesystem, status)} :
              /\ calls' = calls + 1
              /\ call' = NewCall("publish_txn", NoInfo, filesystem, <<>>, <<>>, <<>>)
              /\ Becomes(p.s)
              /\ Return(p.ret)

AbortTxnCall ==
    /\ pc = "idle"
    /\ calls < MaxTxnCalls
    /\ \E filesystem \in TxnFilesystems, status \in TxnStatuses :
          \E a \in {abort_txn([Cur EXCEPT !.trace = <<>>], filesystem, status)} :
              /\ calls' = calls + 1
              /\ call' = NewCall("abort_txn", NoInfo, filesystem, <<>>, <<>>, <<>>)
              /\ Becomes(a.s)
              /\ Return(a.ret)

NextTxn == StartTxnCall \/ PublishTxnCall \/ AbortTxnCall

SpecTxn == InitTxn /\ [][NextTxn]_vars

-----------------------------------------------------------------------------
(* Properties *)

PublishReturned == pc = "idle" /\ call.op = "publish_docker_image"
LinkReturned == pc = "idle" /\ call.op = "create_symlink"

Issued(cmd) == \E i \in DOMAIN trace : trace[i].cmd = cmd
IssuedAfter(i, cmds) == \E j \in DOMAIN trace : j > i /\ trace[j].cmd \in cmds

\* what lstat finds at a path
Absent == [type |-> "absent", target |-> <<>>, mode |-> 0]
NodeAt(f, p) ==
    LET r == Lstat(f, p, TRUE) IN IF Failed(r) THEN Absent ELSE f[r]

\* the directory a path resolves to, following links
Resolved(f, p) == Stat(f, p, TRUE)

\* a result that tells the caller the call failed
Failure(r) == r.kind = "raise" \/ Truthy(r)

\* the builder did not end with success during the call: it exited with a
\* nonzero exit code or was ended by a signal, so that the wait status
\* os.system returned is not 0
BuildFailed ==
    \E i \in DOMAIN trace : trace[i].cmd = "build" /\ trace[i].status # 0

\* the builder exited with a nonzero exit code during the call, the one
\* failure line 106 tests for
BuildExitedNonzero ==
    \E i \in DOMAIN trace : trace[i].cmd = "build" /\ WEXITSTATUS(trace[i].status) # 0

\* the call got as far as create_symlink and found the tag path taken by
\* something that is not a symbolic link
LinkRefused ==
    Issued("touch") /\ NodeAt(call.pre.fs, tag_dir).type \in {"file", "dir"}

\* C1: a publish call that began a transaction (the underlying begin exited
\* 0) has issued the underlying commit or abort after it by the time it returns.
C1_TransactionEndedOnReturn ==
    PublishReturned =>
        \A i \in DOMAIN trace :
            (trace[i].cmd = "transaction" /\ trace[i].status = 0)
                => IssuedAfter(i, {"publish", "abort"})

\* C2: the flag is Idle at process start, turns Open only in a call whose
\* underlying begin exited 0, and is Idle whenever the last command issued
\* was a commit or an abort.
C2_IdleAfterCommitOrAbort ==
    /\ calls = 0 => ~in_txn
    /\ (in_txn /\ ~call.pre.in_txn)
          => \E i \in DOMAIN trace : trace[i].cmd = "transaction" /\ trace[i].status = 0
    /\ (trace # <<>> /\ trace[Len(trace)].cmd \in {"publish", "abort"}) => ~in_txn

\* C3: a publish of a digest whose directory another tag of the same namespace
\* and project already points at (begin not failing, the tag path free or a
\* link) leaves its own tag a link to that directory, without makedirs and
\* without the builder.
C3_SecondTagLinked ==
    \A other \in Tags \ {call.info.tag} :
        LET other_dir == TagDir([call.info EXCEPT !.tag = other], call.filesystem,
                                call.rootdir)
        IN  ( /\ PublishReturned
              /\ ret # RInt(1)
              /\ os_path_islink(call.pre.fs, other_dir, superuser)
              /\ ~Failed(Resolved(call.pre.fs, other_dir))
              /\ Resolved(call.pre.fs, other_dir) = Resolved(call.pre.fs, image_dir)
              /\ NodeAt(call.pre.fs, tag_dir).type \in {"absent", "link"} )
            => /\ os_path_islink(fs, tag_dir, superuser)
               /\ Resolved(fs, tag_dir) = Resolved(fs, image_dir)
               /\ Resolved(fs, other_dir) = Resolved(fs, image_dir)
               /\ ~Issued("makedirs")
               /\ ~Issued("build")

\* C4: in a call that enters start_txn with the flag Idle and the marker
\* present, the first command is the underlying abort and the underlying begin
\* comes only after it; if that abort exits nonzero the call has returned 1,
\* issued nothing else and left the flag Idle.
C4_RecoveryAbortBeforeBegin ==
    ( /\ call.op = "publish_docker_image"
      /\ ret # RRaise("ValueError")
      /\ ~call.pre.in_txn
      /\ call.filesystem \in call.pre.lock )
    => /\ trace # <<>>
       /\ trace[1].cmd = "abort"
       /\ \A i \in DOMAIN trace : trace[i].cmd = "transaction" => i = 2
       /\ trace[1].status # 0
             => (pc = "idle" /\ ret = RInt(1) /\ Len(trace) = 1 /\ ~in_txn)

C4_Witness ==
    /\ PublishReturned
    /\ ~call.pre.in_txn
    /\ call.filesystem \in call.pre.lock
    /\ trace = <<[cmd |-> "abort", status |-> 256]>>
    /\ ret = RInt(1)

\* every tag path holds what it held when the call was made
TagsUntouched == \A t \in TagPaths : NodeAt(fs, t) = NodeAt(call.pre.fs, t)

\* what a publish call has done when it stopped at a failed build: the
\* underlying abort issued after the build, no commit, no symlink or unlink
\* call, every tag path as it was
AbortedAtBuild ==
    /\ \A i \in DOMAIN trace : trace[i].cmd = "build" => IssuedAfter(i, {"abort"})
    /\ ~Issued("publish")
    /\ ~Issued("symlink")
    /\ ~Issued("unlink")
    /\ TagsUntouched

\* C5: a publish call in which the builder did not end with success (it
\* exited with a nonzero exit code or was killed) has issued the underlying
\* abort after the build and no commit, has made no symlink or unlink call,
\* and has left every tag path as it was.
C5_BuildFailureAborts == (PublishReturned /\ BuildFailed) => AbortedAtBuild

\* the same for the failure the code tests for, a nonzero exit code
ExitCodeFailureAborts == (PublishReturned /\ BuildExitedNonzero) => AbortedAtBuild

\* C6: a publish call whose create_symlink found the tag path taken by a
\* non-symlink has issued the underlying abort, no commit, and returned a failure.
C6_LinkFailureAborts ==
    (PublishReturned /\ LinkRefused)
    => /\ Issued("abort")
       /\ ~Issued("publish")
       /\ Failure(ret)

\* C7: a publish call returns a failure when the build failed, when the link
\* was refused, and, when it reached the commit, exactly when the commit
\* exited nonzero.
C7_ResultTellsFailure ==
    PublishReturned
    => /\ BuildFailed => Failure(ret)
       /\ LinkRefused => Failure(ret)
       /\ \A i \in DOMAIN trace :
             trace[i].cmd = "publish" => (Failure(ret) <=> trace[i].status # 0)

\* the nodes at and below the directory a path resolves to
Subtree(f, p) ==
    LET base == Resolved(f, p)
    IN  [q \in {x \in DOMAIN f : x = base \/ IsUnder(base, x)} |-> f[q]]

\* C8: in a publish call made when the digest directory exists, no makedirs is
\* issued, the builder is not invoked and nothing at or below the directory
\* changes; and no directory is handed to the builder twice.
C8_BuildOncePerDigestPath ==
    /\ \A i, j \in DOMAIN builds : builds[i] = builds[j] => i = j
    /\ (call.op = "publish_docker_image" /\ os_path_exists(call.pre.fs, image_dir, superuser))
          => /\ ~Issued("makedirs")
             /\ ~Issued("build")
             /\ Subtree(fs, image_dir) = Subtree(call.pre.fs, image_dir)

C8_Witness ==
    /\ PublishReturned
    /\ os_path_exists(call.pre.fs, image_dir, superuser)
    /\ Issued("transaction")
    /\ ret = RNone
    /\ builds # <<>>

\* the digest directory of another image reference, on the running call's
\* filesystem and root directory
ImageDirOf(info) ==
    ImageDir(info, call.filesystem, call.rootdir,
             DigestPath(StrSplit(info.digest, COLON)[1], StrSplit(info.digest, COLON)[2]))

\* C9: every image reference with the digest of the running call
\* has the running call's digest directory, whatever its namespace, project or tag.
C9_PathFromDigestOnly ==
    call.op = "publish_docker_image"
    => \A other \in ImageInfos :
          other.digest = call.info.digest => ImageDirOf(other) = image_dir

\* what the layout of lines 172-173 keeps: every image reference with the
\* digest, namespace and project of the running call has the running call's
\* digest directory, whatever its tag
PathFromDigestNamespaceProject ==
    call.op = "publish_docker_image"
    => \A other \in ImageInfos :
          ( /\ other.digest = call.info.digest
            /\ other.namespace = call.info.namespace
            /\ other.project = call.info.project )
          => ImageDirOf(other) = image_dir

\* C10: create_symlink(p, t) with t absent returns 0, issues the symlink and
\* leaves t a link to p; create_symlink(p, t) with t already a link to p
\* returns 0, issues neither unlink nor symlink and leaves t a link to p.
C10_TagIdempotence ==
    LinkReturned
    => /\ NodeAt(call.pre.fs, call.path) = Absent
             => /\ ret = RInt(0)
                /\ Issued("symlink")
                /\ NodeAt(fs, call.path) = LinkNode(call.target)
       /\ NodeAt(call.pre.fs, call.path) = LinkNode(call.target)
             => /\ ret = RInt(0)
                /\ ~Issued("symlink")
                /\ ~Issued("unlink")
                /\ NodeAt(fs, call.path) = LinkNode(call.target)

\* the tag path held a symbolic link to something other than the target asked for
LinkDiffers ==
    /\ NodeAt(call.pre.fs, call.path).type = "link"
    /\ NodeAt(call.pre.fs, call.path) # LinkNode(call.target)

\* C11: create_symlink(p1, t) with t absent creates the link (returns 0 after
\* a symlink call and no unlink), and a following create_symlink(p2, t) with
\* p2 # p1 repairs it: returns 0 after an unlink followed by a symlink, and t
\* is a link to p2.
C11_TagRepair ==
    LinkReturned
    => /\ NodeAt(call.pre.fs, call.path) = Absent
             => /\ ret = RInt(0)
                /\ Issued("symlink")
                /\ ~Issued("unlink")
       /\ LinkDiffers
             => /\ ret = RInt(0)
                /\ \E i \in DOMAIN trace :
                      trace[i].cmd = "unlink" /\ IssuedAfter(i, {"symlink"})
                /\ NodeAt(fs, call.path) = LinkNode(call.target)

\* the tag path held a plain file or a directory when the call was made
TagOccupied == NodeAt(call.pre.fs, call.path).type \in {"file", "dir"}

\* C12: create_symlink on a tag path that holds a plain file or a directory
\* returns 1, issues no unlink and no symlink, and leaves the filesystem, that
\* file or directory included, as it was.
C12_OccupiedTagRefused ==
    (LinkReturned /\ TagOccupied)
    => /\ ret = RInt(1)
       /\ ~Issued("unlink")
       /\ ~Issued("symlink")
       /\ fs = call.pre.fs

C12_Witness ==
    /\ LinkReturned
    /\ NodeAt(call.pre.fs, call.path).type = "file"
    /\ ret = RInt(1)
    /\ NodeAt(fs, call.path) = FileNode

\* the same refusal met with a directory at the tag path
C12_DirectoryRefused ==
    /\ LinkReturned
    /\ NodeAt(call.pre.fs, call.path).type = "dir"
    /\ ret = RInt(1)
    /\ NodeAt(fs, call.path) = DirNode

\* C13: start_txn entered with the flag Open returns 0 and issues no command
\* (no abort, no begin), whether or not the marker is present; publish_txn
\* entered with the flag Idle returns 0 and issues no command; and a call in
\* which the underlying begin is issued was entered with the flag Idle.
C13_FlagGuardsCommands ==
    /\ (call.op = "start_txn" /\ call.pre.in_txn)
          => /\ ret = RInt(0)
             /\ trace = <<>>
             /\ in_txn
             /\ lock = call.pre.lock
    /\ (call.op = "publish_txn" /\ ~call.pre.in_txn)
          => /\ ret = RInt(0)
             /\ trace = <<>>
             /\ ~in_txn
             /\ lock = call.pre.lock
    /\ Issued("transaction") => ~call.pre.in_txn

C13_Witness ==
    /\ pc = "idle"
    /\ call.op = "start_txn"
    /\ call.pre.in_txn
    /\ call.filesystem \in call.pre.lock
    /\ ret = RInt(0)
    /\ trace = <<>>

\* publish_txn met with the flag Idle
C13_IdleCommit ==
    /\ pc = "idle"
    /\ call.op = "publish_txn"
    /\ ~call.pre.in_txn
    /\ ret = RInt(0)
    /\ trace = <<>>

\* a digest that is not <algorithm>:<hash> with an algorithm of the store's
\* layout and a hash that is not empty
KnownAlgorithms == {STR_sha256}
InvalidDigest(d) ==
    LET parts == StrSplit(d, COLON)
    IN  \/ Len(parts) # 2
        \/ parts[1] \notin KnownAlgorithms
        \/ parts[2] = <<>>

\* C14: a publish call handed a digest with an empty hash or an unknown
\* algorithm makes no directory, does not invoke the builder, changes no
\* symlink (the filesystem stays as it was) and returns a failure.
C14_InvalidDigestRejected ==
    (call.op = "publish_docker_image" /\ InvalidDigest(call.info.digest))
    => /\ fs = call.pre.fs
       /\ ~Issued("makedirs")
       /\ ~Issued("build")
       /\ ~Issued("symlink")
       /\ pc = "idle" => Failure(ret)

\* the underlying begin exited nonzero during the call
BeginFailed ==
    \E i \in DOMAIN trace : trace[i].cmd = "transaction" /\ trace[i].status # 0

\* C15: a publish call whose underlying begin exited nonzero issued the begin
\* once and nothing after it, has returned 1 with the flag Idle, and has made
\* no directory, run no builder, changed no symlink and issued no commit.
C15_BeginFailureStops ==
    (call.op = "publish_docker_image" /\ BeginFailed)
    => /\ \A i, j \in DOMAIN trace :
             (trace[i].cmd = "transaction" /\ trace[j].cmd = "transaction") => i = j
       /\ trace[Len(trace)].cmd = "transaction"
       /\ pc = "idle"
       /\ ret = RInt(1)
       /\ ~in_txn
       /\ fs = call.pre.fs
       /\ ~Issued("build")
       /\ ~Issued("makedirs")
       /\ ~Issued("symlink")
       /\ ~Issued("unlink")
       /\ ~Issued("publish")

C15_Witness ==
    /\ PublishReturned
    /\ BeginFailed
    /\ calls = 2
    /\ ret = RInt(1)
    /\ fs = call.pre.fs
    /\ \E t \in TagPaths : NodeAt(fs, t).type = "link"

\* the symlink call at place i of the trace comes after a build whose status
\* is in `ok` and after the touch of the sentinel that followed that build
LinkAfterBuild(i, ok) ==
    \E j, k \in DOMAIN trace :
        /\ j < k
        /\ k < i
        /\ trace[j].cmd = "build"
        /\ trace[j].status \in ok
        /\ trace[k].cmd = "touch"

\* the tag path of the running call is not what it was when the call was made
TagChanged == NodeAt(fs, tag_dir) # NodeAt(call.pre.fs, tag_dir)

\* C16: in every state of a publish call, a symlink call has been issued only
\* after the builder returned success (status 0) and the sentinel was touched,
\* and a tag the call has created or replaced resolves to the call's digest
\* directory, with the sentinel in it.
C16_LinkAfterCompletedBuild ==
    (call.op = "publish_docker_image" /\ ret # RRaise("ValueError"))
    => /\ \A i \in DOMAIN trace : trace[i].cmd = "symlink" => LinkAfterBuild(i, {0})
       /\ TagChanged
             => /\ ~Failed(Resolved(fs, tag_dir))
                /\ Resolved(fs, tag_dir) = Resolved(fs, image_dir)
                /\ os_path_exists(fs, PathJoin(<<image_dir, STR_cvmfscatalog>>), superuser)

\* the same order with success read as the code reads it, from the exit code
\* field of the status alone
LinkAfterBuildExitCodeZero ==
    (call.op = "publish_docker_image" /\ ret # RRaise("ValueError"))
    => \A i \in DOMAIN trace :
          trace[i].cmd = "symlink"
              => LinkAfterBuild(i, {st \in BuildStatuses : WEXITSTATUS(st) = 0})

\* a step that changes the store or hands a directory to the builder
StoreMutation == fs' # fs \/ builds' # builds

\* a step that issues the underlying commit
CommitIssued ==
    /\ Len(trace') = Len(trace) + 1
    /\ trace'[Len(trace')].cmd = "publish"

\* C17: every step of a publish call that changes the store (makes the digest
\* directory, runs the builder, creates or replaces the tag symlink) or issues
\* the underlying commit is taken while the repository's transaction is open:
\* its marker, left by a begin that exited 0, has not been removed by a commit
\* or an abort since.
C17_MutationOnlyInTransaction ==
    [][(StoreMutation \/ CommitIssued) => call'.filesystem \in lock]_vars

\* what a process reading the tag path of the running call finds now
ReaderSees == NodeAt(fs, call.path)

\* C18: from the moment a create_symlink call finds a symbolic link at the tag
\* path to its return, a reader of the tag path finds a link to the old target
\* or a link to the new one, never nothing.
C18_ReplaceAtomicForReaders ==
    (call.op = "create_symlink" /\ NodeAt(call.pre.fs, call.path).type = "link")
    => ReaderSees \in {NodeAt(call.pre.fs, call.path), LinkNode(call.target)}

\* permission bit b is set in mode m
HasBit(m, b) == BitAnd(m, b) = b

\* the nodes below the digest directory of the running call
BelowImageDir(f) == {q \in DOMAIN f : IsUnder(Resolved(f, call.path), q)}

\* C19: the pass of write_docker_image leaves every directory below the digest
\* directory with the owner-execute and the owner-write bit, every regular
\* file with a read bit, and every bit a mode had before the pass still set.
C19_NormalizedModes ==
    [][pc = "normalize"
       => \A q \in BelowImageDir(fs) :
             /\ fs[q].type = "dir"
                   => (HasBit(fs'[q].mode, MODE_X_USR) /\ HasBit(fs'[q].mode, MODE_W_USR))
             /\ fs[q].type = "file" => BitAnd(fs'[q].mode, MODE_R_ANY) # 0
             /\ HasBit(fs'[q].mode, fs[q].mode)]_vars

\* C20: create_symlink on a tag path that is a symbolic link, whether or not
\* its target exists, returns without raising and leaves the tag a link to the
\* target asked for; when it already was one, no unlink and no symlink is issued.
C20_SymlinkPreStateHandled ==
    (LinkReturned /\ NodeAt(call.pre.fs, call.path).type = "link")
    => /\ ret.kind # "raise"
       /\ NodeAt(fs, call.path) = LinkNode(call.target)
       /\ ~LinkDiffers => (~Issued("unlink") /\ ~Issued("symlink"))

=============================================================================
